---- MODULE Spec2Model ----
(***************************************************************************)
(* A model of the documentation site's Playground component and of the     *)
(* mock fixtures it injects into the scope of the live code blocks         *)
(* (src/src/theme/Playground/index.js).                                    *)
(*                                                                         *)
(* index.js holds three variants of the Playground module one after the    *)
(* other:                                                                  *)
(*   "refreshOnly"  lines   1..95   scope = {...scope, ComponentWithRefresh}*)
(*   "fixtures"     lines  97..385  scope = {...scope, <five fixtures>}     *)
(*   "suffix"       lines 387..462  no scope attribute, default transform   *)
(*                                  appends ";"                             *)
(* The variable variant says which of them is running.                     *)
(*                                                                         *)
(* JavaScript values are written as follows: a source text is a sequence   *)
(* of one-character strings; null and undefined are the strings "null"     *)
(* and "undefined"; an optional object is a sequence of length 0 (absent)  *)
(* or 1 (present); an object is a function from its keys to its values.    *)
(***************************************************************************)
EXTENDS Integers, Sequences, FiniteSets, TLC

VARIABLES
    \* ---- Playground (one render of the container)
    variant,        \* which variant of index.js is running
    children,       \* the example source text given by the host page
    transformCode,  \* the transformCode prop: "undefined" or a caller's function
    scope,          \* the scope prop: absent or a mapping name -> value
    props,          \* the remaining (pass-through) props
    colorMode,      \* the site's colour mode, which usePrismTheme() reads
    live,           \* the props LiveProvider (the evaluator) received at the last render
    \* ---- ThemedLiveEditor and ResultWithHeader of one Playground instance
    isBrowser,      \* what useIsBrowser() returns
    editorKey,      \* the key of the LiveEditor element of the last render
    editorCreations,\* how many LiveEditor instances React has created so far
    pane,           \* the elements the result pane shows
    buffer,         \* the evaluator's current source (what the editor edits)
    renders,        \* renders that changed nothing else, so far
    firstKey,       \* history: the editor's key at the instance's first render
    \* ---- the browser's timers
    timers,         \* the pending setTimeout callbacks, in the order they were set
    \* ---- SubmitProvider
    result,         \* useState(null): absent or the record last received
    calls,          \* history: the payloads of the calls of apiSubmit, in order
    cleared,        \* history: the result the latest call of apiSubmit replaced
    settled,        \* the promises of apiSubmit resolved so far
    \* ---- UserForm
    tab,            \* useState(0): index of the step shown
    formState,      \* useState(userData || default): the form record
    formSubmits,    \* submissions of the form so far
    trail,          \* history: what happened since the favourite colour was typed
    formAlias,      \* the id of the users record that the form record is (the
                    \* same object), 0 when the form record is an object of its own
    lastEdit,       \* history: the input edited last and the update it passed
    \* ---- ComponentWithRefresh around NoteList
    mounted,        \* useState(true)
    child,          \* the mounted NoteList instance and its state, or absent
    instances,      \* NoteList instances mounted so far
    refreshes,      \* activations of the Refresh button so far
    discarded,      \* history: the state of the NoteList the latest activation unmounted
    \* ---- the users table and apiFetchUserDataById
    users,          \* const users: the records of the mock users by id
    fetches,        \* history: the ids passed to apiFetchUserDataById, in call order
    promises,       \* the promises the calls returned, in call order
    overlapped,     \* history: a call was made while an earlier one was pending
    \* ---- FormContainer
    userId,         \* useState(1): the id selected by the radio buttons
    userData,       \* useState(null): the fetched record, UserForm's userData prop
    formKey,        \* the key of the UserForm element of the last render
    selections,     \* selections of another user id so far
    \* ---- a component that calls the deferred fixtures
    callerMounted,  \* the component is mounted
    orphaned        \* history: the calls pending when the component was unmounted

playgroundVars == <<variant, children, transformCode, scope, props, colorMode, live>>
clientVars == <<isBrowser, editorKey, editorCreations, pane, buffer, renders, firstKey>>
submitVars == <<result, calls, cleared, settled>>
formVars == <<tab, formState, formSubmits, trail, formAlias, lastEdit>>
refreshVars == <<mounted, child, instances, refreshes, discarded>>
fetchVars == <<fetches, promises, overlapped>>
containerVars == <<userId, userData, formKey, selections>>
callerVars == <<callerMounted, orphaned>>
fixtureVars == <<users, fetchVars, containerVars, callerVars>>

vars ==
    <<playgroundVars, clientVars, timers, submitVars, formVars, refreshVars,
      fixtureVars>>

-----------------------------------------------------------------------------
(* Bounds of the model *)

\* longest example source text
MaxLen == 3

\* renders of a Playground instance that change nothing else
MaxRenders == 3

\* calls of the submit function by a consumer of SubmitProvider
MaxCalls == 3

\* submissions of the multi-step form
MaxFormSubmits == 1

\* calls of apiFetchUserDataById by a component
MaxFetches == 2

\* selections of another user id in FormContainer
MaxSelections == 2

\* activations of the Refresh button
MaxRefreshes == 3

-----------------------------------------------------------------------------
(* JavaScript helpers *)

\* absent / present optional value
None == << >>
Some(x) == <<x>>

\* { ...first, ...later }: the keys of both, later wins on a key of both
ObjectSpread(first, later) ==
    [k \in (DOMAIN first) \cup (DOMAIN later) |->
        IF k \in DOMAIN later THEN later[k] ELSE first[k]]

\* ...x of an optional object: spreading undefined adds no key
SpreadOptional(x) == IF x = None THEN << >> ELSE x[1]

\* all sequences over S of length at most n
SeqUpTo(S, n) == UNION {[1..m -> S] : m \in 0..n}

-----------------------------------------------------------------------------
(* Playground: inputs *)

Variants == {"refreshOnly", "fixtures", "suffix"}

Chars == {"a", "\n"}
SourceTexts == SeqUpTo(Chars, MaxLen)

\* transformCode prop: not given, or one of two functions of the caller
UserTransforms == {"prependR", "constantK"}
TransformInputs == {"undefined"} \cup UserTransforms

\* names a caller may put in the scope prop: two collide with fixtures
OverrideNames == {"ComponentWithRefresh", "UserForm", "mockFetchNotes"}
ScopeInputs ==
    {None} \cup {Some([k \in D |-> "caller"]) : D \in SUBSET OverrideNames}

\* names a caller may pass as further props, with the value it passes
PassThroughNames == {"code", "theme", "noInline", "language"}
CallerValue(k) ==
    CASE k = "code" -> <<"c">>
      [] k = "theme" -> "callerTheme"
      [] k = "noInline" -> FALSE
      [] OTHER -> "jsx"
PropsInputs == {[k \in D |-> CallerValue(k)] : D \in SUBSET PassThroughNames}

ColorModes == {"light", "dark"}

-----------------------------------------------------------------------------
(* The users table *)

\* const users = { 1: {...}, 2: {...} }
UsersTable ==
    (1 :> [id |-> 1, name |-> "Jim X. Magoo", age |-> "59",
           favoriteColor |-> "goldenrod", isHungry |-> TRUE, isThirsty |-> FALSE])
    @@
    (2 :> [id |-> 2, name |-> "Lizzy Gorbmacher-Drizzle", age |-> "22",
           favoriteColor |-> "tomato", isHungry |-> FALSE, isThirsty |-> TRUE])

-----------------------------------------------------------------------------
(* The parts of the page that a specification does not exercise *)

IdlePlayground ==
    /\ variant = "fixtures"
    /\ children = << >>
    /\ transformCode = "undefined"
    /\ scope = None
    /\ props = << >>
    /\ colorMode = "light"
    /\ live = << >>

IdleClient ==
    /\ isBrowser = TRUE
    /\ editorKey = TRUE
    /\ editorCreations = 0
    /\ pane = {}
    /\ buffer = << >>
    /\ renders = 0
    /\ firstKey = TRUE

IdleSubmit ==
    /\ result = None
    /\ calls = << >>
    /\ cleared = None
    /\ settled = 0

IdleForm ==
    /\ tab = 0
    /\ formState = << >>
    /\ formSubmits = 0
    /\ trail = "none"
    /\ formAlias = 0
    /\ lastEdit = None

IdleRefresh ==
    /\ mounted = FALSE
    /\ child = None
    /\ instances = 0
    /\ refreshes = 0
    /\ discarded = None

IdleFetch ==
    /\ users = UsersTable
    /\ fetches = << >>
    /\ promises = << >>
    /\ overlapped = FALSE

IdleContainer ==
    /\ userId = 1
    /\ userData = None
    /\ formKey = None
    /\ selections = 0

IdleCaller ==
    /\ callerMounted = TRUE
    /\ orphaned = 0

-----------------------------------------------------------------------------
(* Playground: the render *)

\* a variant of the trim that removes every trailing newline (/\n+$/)
RECURSIVE TrimAllTrailingNewlines(_)
TrimAllTrailingNewlines(s) ==
    IF Len(s) > 0 /\ s[Len(s)] = "\n"
    THEN TrimAllTrailingNewlines(SubSeq(s, 1, Len(s) - 1))
    ELSE s

\* children.replace(/\n$/, ""): without the m flag $ matches at the end of
\* the input only, so at most the last character is removed
TrimFinalNewline(s) ==
    IF Len(s) > 0 /\ s[Len(s)] = "\n" THEN SubSeq(s, 1, Len(s) - 1) ELSE s

\* a variant in which every variant's default appends ";"
DefaultTransformSemicolon(v) == "appendSemicolon"

\* the default of transformCode || (...): (code) => `${code}` in the first
\* two variants, (code) => `${code};` in the third
DefaultTransform(v) == IF v = "suffix" THEN "appendSemicolon" ELSE "identity"

\* transformCode || default: a function is truthy, undefined is not
TransformAttr(v, tc) == IF tc = "undefined" THEN DefaultTransform(v) ELSE tc

\* what a transform function returns for a source text
ApplyTransform(t, code) ==
    CASE t = "identity" -> code
      [] t = "appendSemicolon" -> Append(code, ";")
      [] t = "prependR" -> <<"r">> \o code
      [] OTHER -> <<"k">>

\* usePrismTheme(): the prism theme of the colour mode
PrismTheme(mode) == IF mode = "dark" THEN "dracula" ELSE "github"

\* the fixtures a variant puts into the scope, each bound to the module's own
\* definition of that name
FixtureNames(v) ==
    CASE v = "refreshOnly" -> {"ComponentWithRefresh"}
      [] v = "fixtures" -> {"ComponentWithRefresh", "useSubmit", "SubmitProvider",
                            "UserForm", "apiFetchUserDataById"}
      [] OTHER -> {}
Fixtures(v) == [k \in FixtureNames(v) |-> "fixture"]

\* a variant with the spread last: { ComponentWithRefresh, ..., ...scope }
ScopeAttrSpreadLast(v, sc) == ObjectSpread(Fixtures(v), SpreadOptional(sc))

\* scope={{ ...scope, ComponentWithRefresh, ... }}
ScopeAttr(v, sc) == ObjectSpread(SpreadOptional(sc), Fixtures(v))

\* the attributes written out in the JSX, before {...props}
ExplicitAttrs(v, ch, tc, sc, mode) ==
    LET base == [code |-> TrimFinalNewline(ch),
                 transformCode |-> TransformAttr(v, tc),
                 theme |-> PrismTheme(mode),
                 noInline |-> TRUE]
    IN  IF v = "suffix" THEN base
        ELSE ObjectSpread(base, [scope |-> ScopeAttr(v, sc)])

\* ...props of the parameter list: every prop not destructured by name; the
\* third variant does not destructure scope, so scope stays among them
RestProps(v, sc, pr) ==
    IF v = "suffix" /\ sc # None
    THEN ObjectSpread(pr, [scope |-> sc[1]])
    ELSE pr

\* a variant with {...props} written first, before the other attributes
LiveProviderPropsSpreadFirst(v, ch, tc, sc, pr, mode) ==
    ObjectSpread(RestProps(v, sc, pr), ExplicitAttrs(v, ch, tc, sc, mode))

\* <LiveProvider code=... transformCode=... theme=... noInline scope=... {...props}>
LiveProviderProps(v, ch, tc, sc, pr, mode) ==
    ObjectSpread(ExplicitAttrs(v, ch, tc, sc, mode), RestProps(v, sc, pr))

\* the first render of a Playground
InitPlayground ==
    /\ IdleFetch /\ IdleContainer /\ IdleCaller
    /\ variant \in Variants
    /\ children \in SourceTexts
    /\ transformCode \in TransformInputs
    /\ scope \in ScopeInputs
    /\ props \in PropsInputs
    /\ colorMode \in ColorModes
    /\ live = LiveProviderProps(variant, children, transformCode, scope, props,
                                colorMode)
    /\ IdleClient /\ timers = << >> /\ IdleSubmit /\ IdleForm /\ IdleRefresh

\* the host page renders the Playground again with another source text
SetChildren(s) ==
    /\ s # children
    /\ children' = s
    /\ live' = LiveProviderProps(variant, s, transformCode, scope, props, colorMode)
    /\ UNCHANGED <<variant, transformCode, scope, props, colorMode>>
    /\ UNCHANGED <<clientVars, timers, submitVars, formVars, refreshVars, fixtureVars>>

\* ... with another transformCode prop
SetTransformCode(tc) ==
    /\ tc # transformCode
    /\ transformCode' = tc
    /\ live' = LiveProviderProps(variant, children, tc, scope, props, colorMode)
    /\ UNCHANGED <<variant, children, scope, props, colorMode>>
    /\ UNCHANGED <<clientVars, timers, submitVars, formVars, refreshVars, fixtureVars>>

\* ... with another scope prop
SetScope(sc) ==
    /\ sc # scope
    /\ scope' = sc
    /\ live' = LiveProviderProps(variant, children, transformCode, sc, props,
                                 colorMode)
    /\ UNCHANGED <<variant, children, transformCode, props, colorMode>>
    /\ UNCHANGED <<clientVars, timers, submitVars, formVars, refreshVars, fixtureVars>>

\* ... with other pass-through props
SetProps(pr) ==
    /\ pr # props
    /\ props' = pr
    /\ live' = LiveProviderProps(variant, children, transformCode, scope, pr,
                                 colorMode)
    /\ UNCHANGED <<variant, children, transformCode, scope, colorMode>>
    /\ UNCHANGED <<clientVars, timers, submitVars, formVars, refreshVars, fixtureVars>>

\* the reader switches the colour mode: usePrismTheme() returns the other theme
ToggleColorMode ==
    /\ colorMode' = IF colorMode = "dark" THEN "light" ELSE "dark"
    /\ live' = LiveProviderProps(variant, children, transformCode, scope, props,
                                 colorMode')
    /\ UNCHANGED <<variant, children, transformCode, scope, props>>
    /\ UNCHANGED <<clientVars, timers, submitVars, formVars, refreshVars, fixtureVars>>

NextPlayground ==
    \/ \E s \in SourceTexts : SetChildren(s)
    \/ \E tc \in TransformInputs : SetTransformCode(tc)
    \/ \E sc \in ScopeInputs : SetScope(sc)
    \/ \E pr \in PropsInputs : SetProps(pr)
    \/ ToggleColorMode

SpecPlayground == InitPlayground /\ [][NextPlayground]_vars

-----------------------------------------------------------------------------
(* Playground: properties *)

FiveFixtures ==
    {"ComponentWithRefresh", "useSubmit", "SubmitProvider", "UserForm",
     "apiFetchUserDataById"}

\* C1 as stated: in the variant with the five fixtures the evaluator's scope
\* has every fixture key, and a key of the scope prop that is named like a
\* fixture carries the value the caller gave.
C1_OverrideTakesPrecedence ==
    variant = "fixtures" =>
        /\ FiveFixtures \subseteq DOMAIN live["scope"]
        /\ \A k \in (DOMAIN SpreadOptional(scope)) \cap FiveFixtures :
              live["scope"][k] = SpreadOptional(scope)[k]

\* C1 as amended: in the variant with the five fixtures the evaluator's scope
\* has exactly the fixture keys and the keys of the scope prop; every fixture
\* key carries the fixture (also when the scope prop has a key of that name),
\* and every other key carries the value the caller gave.
C1_FixtureTakesPrecedence ==
    variant = "fixtures" =>
        /\ DOMAIN live["scope"] = FiveFixtures \cup DOMAIN SpreadOptional(scope)
        /\ \A k \in FiveFixtures : live["scope"][k] = "fixture"
        /\ \A k \in (DOMAIN SpreadOptional(scope)) \ FiveFixtures :
              live["scope"][k] = SpreadOptional(scope)[k]

\* a render whose scope prop has a key named like a fixture and another key
C1_Witness ==
    /\ variant = "fixtures"
    /\ scope # None
    /\ {"UserForm", "mockFetchNotes"} \subseteq DOMAIN scope[1]
    /\ live["scope"]["UserForm"] = "fixture"
    /\ live["scope"]["mockFetchNotes"] = "caller"

C3_DefaultTransformIsIdentity ==
    /\ transformCode = "undefined" =>
          \A s \in SourceTexts :
              ApplyTransform(live["transformCode"], s) =
                  IF variant = "suffix" THEN s \o <<";">> ELSE s
    /\ transformCode # "undefined" => live["transformCode"] = transformCode

\* a render without transformCode, in a variant whose default is the identity
C3_Witness ==
    /\ transformCode = "undefined"
    /\ variant = "fixtures"
    /\ live["code"] # << >>
    /\ ApplyTransform(live["transformCode"], live["code"]) = live["code"]

\* C4 as stated: whatever the props, the evaluator gets the trimmed source,
\* the active theme and noInline = true.
C4_NoPropReplaces ==
    /\ live["code"] = TrimFinalNewline(children)
    /\ live["theme"] = PrismTheme(colorMode)
    /\ live["noInline"] = TRUE

\* C4 as amended: the evaluator gets the trimmed source, the active theme
\* and noInline = true, each unless the pass-through props have a key of
\* that name (code, theme, noInline), whose value it then gets instead.
C4_PropReplacesWhenGiven ==
    /\ live["code"] =
          IF "code" \in DOMAIN props THEN props["code"]
          ELSE TrimFinalNewline(children)
    /\ live["theme"] =
          IF "theme" \in DOMAIN props THEN props["theme"]
          ELSE PrismTheme(colorMode)
    /\ live["noInline"] =
          IF "noInline" \in DOMAIN props THEN props["noInline"] ELSE TRUE

\* a render whose pass-through props carry code and noInline but no theme
C4_Witness ==
    /\ DOMAIN props = {"code", "noInline"}
    /\ live["code"] = <<"c">>
    /\ live["noInline"] = FALSE
    /\ live["theme"] = PrismTheme(colorMode)

-----------------------------------------------------------------------------
(* ThemedLiveEditor and ResultWithHeader                                    *)
(*                                                                          *)
(* useIsBrowser() and <BrowserOnly> come from the site generator: the value *)
(* is false while the page is rendered on the server and hydrated, becomes  *)
(* true once after hydration and stays true, also for the pages the reader  *)
(* reaches later without a reload.  A Playground instance is therefore      *)
(* first rendered with either value.                                        *)

\* a variant with the key left out: <LiveEditor className=... />
EditorKeyConstant(isB) == FALSE

\* key={isBrowser}
EditorKey(isB) == isB

\* React keeps the instance of an element whose key is unchanged and creates
\* a new one when the key differs from that of the previous render
CreationsAfter(oldKey, newKey, n) == IF newKey = oldKey THEN n ELSE n + 1

\* a variant with <LiveError /> outside <BrowserOnly>
ResultWithHeaderErrorOutside(isB) ==
    IF isB THEN {"LivePreview", "LiveError"} ELSE {"LivePreviewLoader", "LiveError"}

\* <BrowserOnly fallback={<LivePreviewLoader />}>
\*   {() => (<><LivePreview /><LiveError /></>)}
ResultWithHeader(isB) ==
    IF isB THEN {"LivePreview", "LiveError"} ELSE {"LivePreviewLoader"}

\* one render of ThemedLiveEditor and ResultWithHeader, useIsBrowser()
\* returning isB
RenderClient(isB) ==
    /\ editorKey' = EditorKey(isB)
    /\ editorCreations' = CreationsAfter(editorKey, EditorKey(isB), editorCreations)
    /\ pane' = ResultWithHeader(isB)

\* the first render of a Playground instance
InitClient ==
    /\ IdleFetch /\ IdleContainer /\ IdleCaller
    /\ variant \in Variants
    /\ children \in SourceTexts
    /\ transformCode = "undefined"
    /\ scope = None
    /\ props = << >>
    /\ colorMode = "light"
    /\ live = LiveProviderProps(variant, children, transformCode, scope, props,
                                colorMode)
    /\ isBrowser \in BOOLEAN
    /\ editorKey = EditorKey(isBrowser)
    /\ editorCreations = 1
    /\ pane = ResultWithHeader(isBrowser)
    /\ buffer = live["code"]
    /\ renders = 0
    /\ firstKey = editorKey
    /\ timers = << >> /\ IdleSubmit /\ IdleForm /\ IdleRefresh

\* the site confirms that it runs in the browser (the effect after hydration)
Hydrate ==
    /\ ~isBrowser
    /\ isBrowser' = TRUE
    /\ RenderClient(TRUE)
    /\ UNCHANGED <<buffer, renders, firstKey>>
    /\ UNCHANGED <<playgroundVars, timers, submitVars, formVars, refreshVars, fixtureVars>>

\* the reader types a character at the end of the editor's text
TypeChar(c) ==
    /\ Len(buffer) < MaxLen
    /\ buffer' = Append(buffer, c)
    /\ RenderClient(isBrowser)
    /\ UNCHANGED <<isBrowser, renders, firstKey>>
    /\ UNCHANGED <<playgroundVars, timers, submitVars, formVars, refreshVars, fixtureVars>>

\* the reader deletes the last character of the editor's text
DeleteChar ==
    /\ buffer # << >>
    /\ buffer' = SubSeq(buffer, 1, Len(buffer) - 1)
    /\ RenderClient(isBrowser)
    /\ UNCHANGED <<isBrowser, renders, firstKey>>
    /\ UNCHANGED <<playgroundVars, timers, submitVars, formVars, refreshVars, fixtureVars>>

\* the host page renders the instance again with the same props
Rerender ==
    /\ renders < MaxRenders
    /\ renders' = renders + 1
    /\ RenderClient(isBrowser)
    /\ UNCHANGED <<isBrowser, buffer, firstKey>>
    /\ UNCHANGED <<playgroundVars, timers, submitVars, formVars, refreshVars, fixtureVars>>

NextClient ==
    \/ Hydrate
    \/ \E c \in Chars : TypeChar(c)
    \/ DeleteChar
    \/ Rerender

SpecClient == InitClient /\ [][NextClient]_vars

-----------------------------------------------------------------------------
(* ThemedLiveEditor and ResultWithHeader: properties *)

\* C9: before the client is confirmed the result pane shows the loading
\* placeholder and neither the preview nor the error text; once it is
\* confirmed the pane shows the preview and the error display and not the
\* placeholder.
C9_PlaceholderUntilConfirmed ==
    /\ ~isBrowser => pane = {"LivePreviewLoader"}
    /\ isBrowser => pane = {"LivePreview", "LiveError"}

\* an instance first rendered before the confirmation, after the confirmation
C9_Witness ==
    /\ firstKey = FALSE
    /\ isBrowser
    /\ renders > 0
    /\ pane = {"LivePreview", "LiveError"}

\* C10 as stated: the editor of a Playground instance is re-created exactly
\* once, so a client-confirmed instance has had exactly two editors.
C10_RecreatedExactlyOnce == isBrowser => editorCreations = 2

\* C10 as amended: the editor is re-created at most once.  Its key is the
\* placeholder value in every state before the confirmation and the
\* confirmed value after it; the key changes only in the step that confirms
\* the client, which happens at most once and is never undone; an instance
\* first rendered before the confirmation is re-created in that step, and an
\* instance first rendered after it is never re-created, whatever the number
\* of renders and edits.
C10_RecreatedAtMostOnce ==
    /\ [](editorKey = isBrowser)
    /\ [](editorCreations = IF firstKey = FALSE /\ isBrowser THEN 2 ELSE 1)
    /\ [][isBrowser => isBrowser']_vars
    /\ [][editorKey' # editorKey => ~isBrowser /\ isBrowser']_vars

\* an instance first rendered before the confirmation, re-created once, then
\* rendered and edited further
C10_Witness ==
    /\ firstKey = FALSE
    /\ isBrowser
    /\ editorCreations = 2
    /\ renders = MaxRenders
    /\ buffer # live["code"]

-----------------------------------------------------------------------------
(* The browser's timers                                                     *)
(*                                                                          *)
(* timers lists the pending setTimeout callbacks in the order they were     *)
(* set.  The reader may act at any moment, so only the order in which the   *)
(* callbacks run is kept: a callback never runs before one that was set     *)
(* earlier with a delay not longer than its own.                            *)

\* setTimeout(..., 400) of apiSubmit
SubmitDelay == 400

\* setTimeout(..., 200) of the Refresh button
RefreshDelay == 200

\* setTimeout(..., 500) of the example's mockFetchNotes
NotesDelay == 500

\* setTimeout(callback, delay): callback kind with the value it closes over
Timer(kind, delay, data) == [kind |-> kind, delay |-> delay, data |-> data]

\* the i-th pending callback may run next
CanFire(i) == \A j \in 1..(i - 1) : timers[j].delay > timers[i].delay

\* the pending callbacks without the i-th
WithoutTimer(i) == SubSeq(timers, 1, i - 1) \o SubSeq(timers, i + 1, Len(timers))

-----------------------------------------------------------------------------
(* The form record *)

\* the record UserForm starts with when no userData is given
DefaultForm ==
    [name |-> "null", age |-> 14, favoriteColor |-> "null",
     isHungry |-> FALSE, isThirsty |-> FALSE]

\* e.target.value of the two text inputs
TypedNames == {"Ann"}
TypedColors == {"teal"}

-----------------------------------------------------------------------------
(* SubmitProvider with a consumer of useSubmit() *)

\* the records a consumer submits
SubmitPayloads ==
    {[DefaultForm EXCEPT !.name = n] : n \in {"null", "undefined"} \cup TypedNames}

\* a variant of apiSubmit without setResult(null)
ApiSubmitKeepingResult(data) ==
    /\ result' = result
    /\ timers' = Append(timers, Timer("setResult", SubmitDelay, data))

\* apiSubmit(data): setResult(null), then the promise around setTimeout
ApiSubmit(data) ==
    /\ result' = None
    /\ timers' = Append(timers, Timer("setResult", SubmitDelay, data))

\* a variant of the callback that keeps a result already there
SetResultIfAbsent(current, data) == IF current = None THEN Some(data) ELSE current

\* the timer's callback: setResult(data)
SetResult(current, data) == Some(data)

InitSubmit ==
    /\ IdlePlayground /\ IdleClient /\ IdleForm /\ IdleRefresh
    /\ IdleFetch /\ IdleContainer /\ IdleCaller
    /\ timers = << >>
    /\ result = None
    /\ calls = << >>
    /\ cleared = None
    /\ settled = 0

\* a consumer calls the function useSubmit() gave it
CallSubmit(data) ==
    /\ Len(calls) < MaxCalls
    /\ ApiSubmit(data)
    /\ calls' = Append(calls, data)
    /\ cleared' = result
    /\ UNCHANGED settled
    /\ UNCHANGED <<playgroundVars, clientVars, formVars, refreshVars, fixtureVars>>

\* the timer of a call of apiSubmit fires: setResult(data); resolve()
FireSetResult(i) ==
    /\ timers[i].kind = "setResult"
    /\ CanFire(i)
    /\ result' = SetResult(result, timers[i].data)
    /\ timers' = WithoutTimer(i)
    /\ settled' = settled + 1
    /\ UNCHANGED <<calls, cleared, formVars>>
    /\ UNCHANGED <<playgroundVars, clientVars, refreshVars, fixtureVars>>

NextSubmit ==
    \/ \E d \in SubmitPayloads : CallSubmit(d)
    \/ \E i \in DOMAIN timers : FireSetResult(i)

SpecSubmit == InitSubmit /\ [][NextSubmit]_vars

-----------------------------------------------------------------------------
(* SubmitProvider: properties *)

\* C5: once no timer of a call is pending any more, the retained result is
\* the payload of the last call made and stays so until a further call; in
\* particular after two calls, the second made before the first call's
\* timer fired, it is the second call's payload.  At most one result is
\* retained.
C5_LastCallWins ==
    /\ Len(result) <= 1
    /\ (calls # << >> /\ timers = << >>) => result = Some(calls[Len(calls)])

\* two calls with different payloads, the second made while the first one's
\* timer was pending (it replaced an absent result), and both timers fired
C5_Witness ==
    /\ Len(calls) = 2
    /\ calls[1] # calls[2]
    /\ cleared = None
    /\ timers = << >>
    /\ result = Some(calls[2])

\* C6: the step of a call of the submit function leaves the result absent,
\* whatever it held, and leaves the call's own timer pending; a result is
\* written only by a step in which a timer fires, never by the step of a
\* call.
C6_ClearBeforeDelayedWrite ==
    /\ [][Len(calls') > Len(calls) =>
            /\ result' = None
            /\ Len(timers') = Len(timers) + 1
            /\ timers'[Len(timers')] =
                  Timer("setResult", SubmitDelay, calls'[Len(calls')])]_vars
    /\ [][(result' # None /\ result' # result) =>
            /\ calls' = calls
            /\ Len(timers') = Len(timers) - 1]_vars

\* a call has just replaced a result by absent and its timer is pending
C6_Witness ==
    /\ cleared # None
    /\ result = None
    /\ Len(timers) = 1
    /\ timers[1].data = calls[Len(calls)]

\* C19: whenever the call of apiSubmit made last is not resolved yet, the
\* retained result is absent.
C19_AbsentWhilePending ==
    settled < Len(calls) => result = None

-----------------------------------------------------------------------------
(* UserForm inside SubmitProvider: render(<SubmitProvider><UserForm />...)   *)

\* const steps = [Step1, Step2, Step3]: the indices of the tabs
StepIndices == {0, 1, 2}

\* history of the favourite colour: typed on step 2 ("edited"), then another
\* step selected ("away"), then step 2 selected again ("back")
TrailAfterTab(i) ==
    CASE trail = "edited" /\ i # tab -> "away"
      [] trail = "away" /\ i = 1 -> "back"
      [] OTHER -> trail

\* the userData prop a host gives UserForm: none, or a record of the table
UserDataInputs == {None} \cup {Some(UsersTable[id]) : id \in DOMAIN UsersTable}

\* a variant of UserForm that starts from the default record whatever it is given
InitialFormStateDefault(ud) == DefaultForm

\* useState(userData || { name: null, age: 14, ... })
InitialFormState(ud) == IF ud = None THEN DefaultForm ELSE ud[1]

\* useState keeps the object it is given: the form record of a form that
\* was given a record of the table is that record
InitialFormAlias(ud) == IF ud = None THEN 0 ELSE ud[1].id

\* what an input did: its name and the update it passed to onChange
Edit(input, update) == Some([input |-> input, update |-> update])

\* a variant of handleChange that writes the update into the old form
\* record (Object.assign(oldFormState, update))
HandleChangeInPlace(update) ==
    /\ formState' = ObjectSpread(formState, update)
    /\ formAlias' = formAlias
    /\ users' = IF formAlias = 0
                THEN users
                ELSE [users EXCEPT ![formAlias] = ObjectSpread(formState, update)]

\* handleChange(update): setFormState(old => ({ ...old, ...update })); the
\* new form record is a new object and the old one is left as it was
HandleChange(update) ==
    /\ formState' = ObjectSpread(formState, update)
    /\ formAlias' = 0
    /\ users' = users

InitForm ==
    /\ IdlePlayground /\ IdleClient /\ IdleRefresh /\ IdleFetch /\ IdleCaller
    /\ timers = << >>
    /\ result = None
    /\ calls = << >>
    /\ cleared = None
    /\ settled = 0
    /\ userId = 1
    /\ userData \in UserDataInputs
    /\ formKey = None
    /\ selections = 0
    /\ tab = 0
    /\ formState = InitialFormState(userData)
    /\ formAlias = InitialFormAlias(userData)
    /\ formSubmits = 0
    /\ trail = "none"
    /\ lastEdit = None

\* a variant in which selecting a tab also starts the form record afresh
SetTabResettingForm(i) ==
    /\ tab' = i
    /\ formState' = DefaultForm
    /\ formAlias' = 0
    /\ trail' = TrailAfterTab(i)
    /\ UNCHANGED <<formSubmits, lastEdit, timers, submitVars>>
    /\ UNCHANGED <<playgroundVars, clientVars, refreshVars, fixtureVars>>

\* a tab button: onClick={() => setTab(i)}
SetTab(i) ==
    /\ tab' = i
    /\ trail' = TrailAfterTab(i)
    /\ UNCHANGED <<formState, formSubmits, formAlias, lastEdit, timers, submitVars>>
    /\ UNCHANGED <<playgroundVars, clientVars, refreshVars, fixtureVars>>

\* Step1, Name: onChange({ name: e.target.value })
Step1NameInput(v) ==
    /\ tab = 0
    /\ HandleChange([name |-> v])
    /\ lastEdit' = Edit("name", [name |-> v])
    /\ UNCHANGED <<tab, formSubmits, trail, timers, submitVars>>
    /\ UNCHANGED <<playgroundVars, clientVars, refreshVars, fetchVars, containerVars, callerVars>>

\* Step1, Age: onChange({ name: e.target.age }); an input element has no
\* age property, so the update is { name: undefined }
Step1AgeInput ==
    /\ tab = 0
    /\ HandleChange([name |-> "undefined"])
    /\ lastEdit' = Edit("age", [name |-> "undefined"])
    /\ UNCHANGED <<tab, formSubmits, trail, timers, submitVars>>
    /\ UNCHANGED <<playgroundVars, clientVars, refreshVars, fetchVars, containerVars, callerVars>>

\* Step2, Favorite Color: onChange({ favoriteColor: e.target.value })
Step2ColorInput(v) ==
    /\ tab = 1
    /\ HandleChange([favoriteColor |-> v])
    /\ lastEdit' = Edit("favoriteColor", [favoriteColor |-> v])
    /\ trail' = "edited"
    /\ UNCHANGED <<tab, formSubmits, timers, submitVars>>
    /\ UNCHANGED <<playgroundVars, clientVars, refreshVars, fetchVars, containerVars, callerVars>>

\* Step3, hungry: onChange({ isHungry: e.target.checked })
Step3HungryInput ==
    /\ tab = 2
    /\ HandleChange([isHungry |-> ~formState.isHungry])
    /\ lastEdit' = Edit("isHungry", [isHungry |-> ~formState.isHungry])
    /\ UNCHANGED <<tab, formSubmits, trail, timers, submitVars>>
    /\ UNCHANGED <<playgroundVars, clientVars, refreshVars, fetchVars, containerVars, callerVars>>

\* Step3, thirsty: onChange({ isThirsty: e.target.checked })
Step3ThirstyInput ==
    /\ tab = 2
    /\ HandleChange([isThirsty |-> ~formState.isThirsty])
    /\ lastEdit' = Edit("isThirsty", [isThirsty |-> ~formState.isThirsty])
    /\ UNCHANGED <<tab, formSubmits, trail, timers, submitVars>>
    /\ UNCHANGED <<playgroundVars, clientVars, refreshVars, fetchVars, containerVars, callerVars>>

\* handleSubmit: await apiSubmit(formState)
HandleSubmit ==
    /\ formSubmits < MaxFormSubmits
    /\ formSubmits' = formSubmits + 1
    /\ ApiSubmit(formState)
    /\ calls' = Append(calls, formState)
    /\ cleared' = result
    /\ UNCHANGED <<tab, formState, trail, formAlias, lastEdit, settled>>
    /\ UNCHANGED <<playgroundVars, clientVars, refreshVars, fixtureVars>>

NextForm ==
    \/ \E i \in StepIndices : SetTab(i)
    \/ \E v \in TypedNames : Step1NameInput(v)
    \/ Step1AgeInput
    \/ \E v \in TypedColors : Step2ColorInput(v)
    \/ Step3HungryInput
    \/ Step3ThirstyInput
    \/ HandleSubmit
    \/ \E i \in DOMAIN timers : FireSetResult(i)

SpecForm == InitForm /\ [][NextForm]_vars

-----------------------------------------------------------------------------
(* UserForm: properties *)

\* C7: a step that changes the active tab changes nothing else of the form
\* or of the submission (the form record, the retained result, the pending
\* timers), and from the moment a favourite colour is typed on step 2 the
\* form record holds the typed colour through every later tab selection, so
\* step 2 shows it when it is selected again.
C7_TabSwitchKeepsForm ==
    /\ [][tab' # tab =>
            /\ formState' = formState
            /\ formSubmits' = formSubmits
            /\ result' = result
            /\ timers' = timers]_vars
    /\ [](trail # "none" => formState.favoriteColor \in TypedColors)

\* the colour was typed on step 2, another step was selected, and step 2 is
\* selected again and shows the typed colour
C7_Witness ==
    /\ trail = "back"
    /\ tab = 1
    /\ formState.favoriteColor \in TypedColors

\* C15: as long as no input has been edited the form record is the userData
\* record the form was given, or the default record when it was given none;
\* and a step that changes the form record is an edit through
\* handleChange(update), after which the record has the fields it had and
\* those of the update, the fields of the update with the update's values
\* and every other field with the value it had.
C15_FormChangesOnlyByMerge ==
    /\ [](lastEdit = None =>
            \/ userData = None /\ formState = DefaultForm
            \/ userData # None /\ formState = userData[1])
    /\ [][(formState' # formState \/ lastEdit' # lastEdit) =>
            /\ lastEdit' # None
            /\ DOMAIN formState' = DOMAIN formState \cup DOMAIN lastEdit'[1].update
            /\ \A k \in DOMAIN lastEdit'[1].update :
                formState'[k] = lastEdit'[1].update[k]
            /\ \A k \in DOMAIN formState \ DOMAIN lastEdit'[1].update :
                formState'[k] = formState[k]]_vars

\* a form given a record of the table had its colour input edited last: it
\* holds the typed colour and the id and the age of the record it was given
C15_Witness ==
    /\ userData # None
    /\ lastEdit # None
    /\ lastEdit[1].input = "favoriteColor"
    /\ formState.favoriteColor \in TypedColors
    /\ formState.favoriteColor # userData[1].favoriteColor
    /\ formState.id = userData[1].id
    /\ formState.age = userData[1].age

\* C17: an edit of an input passes an update that names the field the input
\* shows and no other, and changes no other field of the form record.
C17_EachInputNamesItsField ==
    [][lastEdit' # lastEdit =>
        /\ DOMAIN lastEdit'[1].update = {lastEdit'[1].input}
        /\ \A k \in DOMAIN formState \ {lastEdit'[1].input} :
            formState'[k] = formState[k]]_vars

-----------------------------------------------------------------------------
(* ComponentWithRefresh around the example's NoteList:                      *)
(* render(<ComponentWithRefresh><NoteList /></ComponentWithRefresh>)         *)

\* a variant that keeps the element and hides it, so that the instance the
\* activation put away comes back with its state
MountChildKeepingState(previous, n) ==
    IF previous = None
    THEN [instance |-> n, notes |-> "null", onlyImportant |-> FALSE]
    ELSE previous[1]

\* {mounted && <div>{children}</div>} with mounted turning true: React
\* mounts a new NoteList, useState(null) and useState(false)
MountChild(previous, n) ==
    [instance |-> n, notes |-> "null", onlyImportant |-> FALSE]

\* NoteList's effect on mount: fetchNotes() awaits mockFetchNotes, whose
\* timer resolves with the notes for the instance that set it
FetchNotesTimer(n) == Timer("setNotes", NotesDelay, n)

InitRefresh ==
    /\ IdlePlayground /\ IdleClient /\ IdleSubmit /\ IdleForm
    /\ IdleFetch /\ IdleContainer /\ IdleCaller
    /\ mounted = TRUE
    /\ child = Some(MountChild(None, 1))
    /\ instances = 1
    /\ refreshes = 0
    /\ discarded = None
    /\ timers = <<FetchNotesTimer(1)>>

\* the Refresh button: setMounted(false); setTimeout(() => setMounted(true), 200)
Refresh ==
    /\ refreshes < MaxRefreshes
    /\ refreshes' = refreshes + 1
    /\ mounted' = FALSE
    /\ child' = None
    /\ discarded' = IF child = None THEN discarded ELSE child
    /\ timers' = Append(timers, Timer("setMounted", RefreshDelay, "true"))
    /\ UNCHANGED instances
    /\ UNCHANGED <<playgroundVars, clientVars, submitVars, formVars, fixtureVars>>

\* the button's timer fires: setMounted(true)
FireSetMounted(i) ==
    /\ timers[i].kind = "setMounted"
    /\ CanFire(i)
    /\ mounted' = TRUE
    /\ IF mounted
       THEN /\ timers' = WithoutTimer(i)
            /\ UNCHANGED <<child, instances>>
       ELSE /\ child' = Some(MountChild(discarded, instances + 1))
            /\ instances' = instances + 1
            /\ timers' = Append(WithoutTimer(i), FetchNotesTimer(instances + 1))
    /\ UNCHANGED <<refreshes, discarded>>
    /\ UNCHANGED <<playgroundVars, clientVars, submitVars, formVars, fixtureVars>>

\* the timer of mockFetchNotes fires: setNotes(n), which does nothing when
\* the instance that asked is no longer mounted
FireSetNotes(i) ==
    /\ timers[i].kind = "setNotes"
    /\ CanFire(i)
    /\ timers' = WithoutTimer(i)
    /\ child' = IF child # None /\ child[1].instance = timers[i].data
                THEN Some([child[1] EXCEPT !.notes = "all"])
                ELSE child
    /\ UNCHANGED <<mounted, instances, refreshes, discarded>>
    /\ UNCHANGED <<playgroundVars, clientVars, submitVars, formVars, fixtureVars>>

\* NoteList's checkbox: setOnlyImportant((i) => !i)
ToggleOnlyImportant ==
    /\ child # None
    /\ child' = Some([child[1] EXCEPT !.onlyImportant = ~child[1].onlyImportant])
    /\ UNCHANGED <<mounted, instances, refreshes, discarded, timers>>
    /\ UNCHANGED <<playgroundVars, clientVars, submitVars, formVars, fixtureVars>>

NextRefresh ==
    \/ Refresh
    \/ \E i \in DOMAIN timers : FireSetMounted(i)
    \/ \E i \in DOMAIN timers : FireSetNotes(i)
    \/ ToggleOnlyImportant

SpecRefresh == InitRefresh /\ [][NextRefresh]_vars

\* every timer that is set fires: the browser runs a callback that is due
SpecRefreshFair ==
    /\ SpecRefresh
    /\ WF_vars(\E i \in DOMAIN timers : FireSetMounted(i))
    /\ WF_vars(\E i \in DOMAIN timers : FireSetNotes(i))

-----------------------------------------------------------------------------
(* ComponentWithRefresh: properties *)

\* the pending timers of the Refresh button
PendingRefreshTimers == {i \in DOMAIN timers : timers[i].kind = "setMounted"}

\* C8: the step that activates Refresh leaves the children unmounted; from
\* every state in which they are unmounted they are mounted again later
\* (every timer fires); and the step that mounts them is a step in which a
\* timer of the button fires, and it mounts a new instance whose state is the
\* initial one, not the state the activation put away.
C8_RefreshRemountsFresh ==
    /\ [][refreshes' > refreshes => ~mounted' /\ child' = None]_vars
    /\ [][(child = None /\ child' # None) =>
            /\ Cardinality(PendingRefreshTimers') = Cardinality(PendingRefreshTimers) - 1
            /\ mounted'
            /\ child'[1].notes = "null"
            /\ child'[1].onlyImportant = FALSE
            /\ child'[1].instance = instances + 1
            /\ instances' = instances + 1]_vars
    /\ [](mounted <=> child # None)
    /\ (~mounted ~> mounted)

\* the activation unmounted a NoteList that had loaded its notes and had its
\* box ticked, and a later NoteList instance is mounted in the initial state
C8_Witness ==
    /\ refreshes > 0
    /\ discarded # None
    /\ discarded[1].notes = "all"
    /\ discarded[1].onlyImportant
    /\ mounted
    /\ child # None
    /\ child[1].instance > discarded[1].instance
    /\ child[1].notes = "null"
    /\ ~child[1].onlyImportant

\* C18: as long as the timer an activation of Refresh has set is pending
\* the children are unmounted, whichever other activations there were.
C18_UnmountedUntilOwnTimer ==
    \A i \in PendingRefreshTimers : ~mounted

-----------------------------------------------------------------------------
(* apiFetchUserDataById *)

\* setTimeout(callback) with no delay argument
FetchDelay == 0

\* the ids a caller passes: the two keys of the table and one that is no key
FetchIds == {1, 2, 3}

\* a promise that is not settled, and one resolved with a value
Pending == [status |-> "pending", value |-> None]
Fulfilled(v) == [status |-> "fulfilled", value |-> v]

\* a variant that reads the id of the latest call instead of its own
FetchedValueOfLatest(id) ==
    IF fetches[Len(fetches)] \in DOMAIN users
    THEN Some(users[fetches[Len(fetches)]])
    ELSE None

\* users[id]: the record under id, undefined (absent) when id is no key
FetchedValue(id) == IF id \in DOMAIN users THEN Some(users[id]) ELSE None

\* a variant that rejects when id is no key of the table
SettleUserOrReject(id) ==
    IF id \in DOMAIN users
    THEN Fulfilled(FetchedValue(id))
    ELSE [status |-> "rejected", value |-> None]

\* resolve(users[id], 500): the promise is resolved with the first argument
SettleUser(id) == Fulfilled(FetchedValue(id))

\* apiFetchUserDataById(id):
\* new Promise((resolve) => setTimeout(() => resolve(users[id], 500)))
ApiFetchUserDataById(id) ==
    /\ fetches' = Append(fetches, id)
    /\ promises' = Append(promises, Pending)
    /\ overlapped' =
        (overlapped \/ \E n \in DOMAIN promises : promises[n].status = "pending")
    /\ timers' = Append(timers,
            Timer("resolveUser", FetchDelay,
                  [promise |-> Len(promises) + 1, id |-> id]))

\* the timer's callback settles the promise of its call
ResolveUser(i) ==
    promises' =
        [promises EXCEPT ![timers[i].data.promise] = SettleUser(timers[i].data.id)]

-----------------------------------------------------------------------------
(* A component under SubmitProvider that calls the two deferred fixtures   *)
(* and may be unmounted while calls are pending                            *)

InitDeferred ==
    /\ IdlePlayground /\ IdleClient /\ IdleForm /\ IdleRefresh /\ IdleContainer
    /\ timers = << >>
    /\ result = None
    /\ calls = << >>
    /\ cleared = None
    /\ settled = 0
    /\ users = UsersTable
    /\ fetches = << >>
    /\ promises = << >>
    /\ overlapped = FALSE
    /\ callerMounted = TRUE
    /\ orphaned = 0

\* the component calls the function useSubmit() gave it
CallerSubmit(data) ==
    /\ callerMounted
    /\ CallSubmit(data)

\* the component calls apiFetchUserDataById(id)
CallerFetch(id) ==
    /\ callerMounted
    /\ Len(fetches) < MaxFetches
    /\ ApiFetchUserDataById(id)
    /\ UNCHANGED <<users, containerVars, callerVars>>
    /\ UNCHANGED <<playgroundVars, clientVars, submitVars, formVars, refreshVars>>

\* the timer of a call of apiFetchUserDataById fires
FireResolveUser(i) ==
    /\ timers[i].kind = "resolveUser"
    /\ CanFire(i)
    /\ ResolveUser(i)
    /\ timers' = WithoutTimer(i)
    /\ UNCHANGED <<fetches, overlapped, users, containerVars, callerVars>>
    /\ UNCHANGED <<playgroundVars, clientVars, submitVars, formVars, refreshVars>>

\* a variant in which unmounting clears the timers of the pending calls
UnmountCallerCancelling ==
    /\ callerMounted
    /\ callerMounted' = FALSE
    /\ orphaned' = Len(timers)
    /\ timers' = << >>
    /\ UNCHANGED <<users, fetchVars, containerVars>>
    /\ UNCHANGED <<playgroundVars, clientVars, submitVars, formVars, refreshVars>>

\* React unmounts the component; neither fixture is told and no timer is
\* cleared
UnmountCaller ==
    /\ callerMounted
    /\ callerMounted' = FALSE
    /\ orphaned' = Len(timers)
    /\ UNCHANGED timers
    /\ UNCHANGED <<users, fetchVars, containerVars>>
    /\ UNCHANGED <<playgroundVars, clientVars, submitVars, formVars, refreshVars>>

NextDeferred ==
    \/ \E d \in SubmitPayloads : CallerSubmit(d)
    \/ \E id \in FetchIds : CallerFetch(id)
    \/ \E i \in DOMAIN timers : FireSetResult(i)
    \/ \E i \in DOMAIN timers : FireResolveUser(i)
    \/ UnmountCaller

SpecDeferred == InitDeferred /\ [][NextDeferred]_vars

\* every timer that is set fires
SpecDeferredFair ==
    /\ SpecDeferred
    /\ WF_vars(\E i \in DOMAIN timers : FireSetResult(i))
    /\ WF_vars(\E i \in DOMAIN timers : FireResolveUser(i))

-----------------------------------------------------------------------------
(* The deferred fixtures: properties *)

\* the value the table holds under an id, absent when the id is no key
TableValue(id) ==
    IF id \in DOMAIN UsersTable THEN Some(UsersTable[id]) ELSE None

\* C11: whichever calls are pending together and in whichever order their
\* timers fire, the step that settles the promise of a call of
\* apiFetchUserDataById gives it the value the table holds under that
\* call's own id, and the step in which the timer of a call of apiSubmit
\* fires makes that call's own payload the retained result.
C11_EachCallDeliversItsOwn ==
    /\ [][\A n \in DOMAIN promises :
            (promises[n].status = "pending" /\ promises'[n].status # "pending") =>
                promises'[n].value = TableValue(fetches[n])]_vars
    /\ [][settled' = settled + 1 => result' = Some(calls[settled + 1])]_vars

\* two fetches with different ids were pending together and each was
\* resolved with its own record; two submissions with different payloads
\* were pending together and the first one's timer has written its payload
C11_Witness ==
    /\ overlapped
    /\ Len(fetches) >= 2
    /\ fetches[1] # fetches[2]
    /\ promises[1] = Fulfilled(TableValue(fetches[1]))
    /\ promises[2] = Fulfilled(TableValue(fetches[2]))
    /\ Len(calls) >= 2
    /\ calls[1] # calls[2]
    /\ settled = 1
    /\ result = Some(calls[1])
    /\ \E i \in DOMAIN timers :
        timers[i].kind = "setResult" /\ timers[i].data = calls[2]

\* C12: the promise of a call of apiFetchUserDataById is pending as long as
\* the timer of the call is, and is resolved and never rejected
\* afterwards: with the record the table holds under the id of the call
\* when the id is a key of the table, with undefined when it is not.
C12_FetchResolvesForEveryId ==
    \A n \in DOMAIN promises :
        /\ promises[n].status \in {"pending", "fulfilled"}
        /\ (promises[n].status = "pending") <=>
            (\E i \in DOMAIN timers :
                /\ timers[i].kind = "resolveUser"
                /\ timers[i].data.promise = n)
        /\ (promises[n].status = "fulfilled") =>
            \/ /\ fetches[n] \in DOMAIN UsersTable
               /\ promises[n].value = Some(UsersTable[fetches[n]])
            \/ /\ fetches[n] \notin DOMAIN UsersTable
               /\ promises[n].value = None

\* a call with a key of the table was resolved with its record and a call
\* with an id that is no key was resolved with undefined
C12_Witness ==
    \E n, k \in DOMAIN promises :
        /\ fetches[n] \in DOMAIN UsersTable
        /\ promises[n] = Fulfilled(Some(UsersTable[fetches[n]]))
        /\ fetches[k] \notin DOMAIN UsersTable
        /\ promises[k] = Fulfilled(None)

\* the promises of apiFetchUserDataById that are settled
SettledFetches == {n \in DOMAIN promises : promises[n].status # "pending"}

\* C13: every call of apiSubmit and every call of apiFetchUserDataById is
\* resolved later (every timer fires), whatever further calls are made and
\* also when the calling component is unmounted in between; no step takes
\* a pending timer away other than the step in which it fires and settles
\* its call.
C13_EveryCallResolves ==
    /\ \A k \in 1..MaxCalls : (Len(calls) >= k) ~> (settled >= k)
    /\ \A k \in 1..MaxFetches :
        (Len(fetches) >= k) ~>
            (Len(promises) >= k /\ promises[k].status = "fulfilled")
    /\ [][\/ Len(timers') >= Len(timers)
          \/ /\ Len(timers') = Len(timers) - 1
             /\ settled' + Cardinality(SettledFetches') =
                    settled + Cardinality(SettledFetches) + 1]_vars

\* the component was unmounted while two calls or more were pending, and
\* every call made, of either fixture, has been resolved since
C13_Witness ==
    /\ ~callerMounted
    /\ orphaned >= 2
    /\ timers = << >>
    /\ Len(calls) >= 1
    /\ settled = Len(calls)
    /\ Len(fetches) >= 1
    /\ \A n \in DOMAIN promises : promises[n].status = "fulfilled"

-----------------------------------------------------------------------------
(* FormContainer: render(<SubmitProvider><FormContainer /></SubmitProvider>) *)

\* the radio buttons' values
SelectableIds == {1, 2}

\* a variant that gives UserForm the same key whatever was fetched
UserFormKeyConstant(ud) == None

\* key={userData ? userData.id : null}
UserFormKey(ud) == IF ud = None THEN None ELSE Some(ud[1].id)

\* the state after the first render and its effect, which calls
\* apiFetchUserDataById(1)
InitContainer ==
    /\ IdlePlayground /\ IdleClient /\ IdleRefresh /\ IdleCaller
    /\ result = None
    /\ calls = << >>
    /\ cleared = None
    /\ settled = 0
    /\ users = UsersTable
    /\ userId = 1
    /\ userData = None
    /\ formKey = UserFormKey(None)
    /\ selections = 0
    /\ tab = 0
    /\ formState = InitialFormState(None)
    /\ formAlias = InitialFormAlias(None)
    /\ formSubmits = 0
    /\ trail = "none"
    /\ lastEdit = None
    /\ fetches = <<1>>
    /\ promises = <<Pending>>
    /\ overlapped = FALSE
    /\ timers = <<Timer("resolveUser", FetchDelay, [promise |-> 1, id |-> 1])>>

\* the other radio button: setUserId(parseInt(e.target.value)), then the
\* effect on [userId] calls apiFetchUserDataById(userId)
SelectUser(id) ==
    /\ selections < MaxSelections
    /\ id # userId
    /\ userId' = id
    /\ selections' = selections + 1
    /\ ApiFetchUserDataById(id)
    /\ UNCHANGED <<userData, formKey, users, callerVars>>
    /\ UNCHANGED <<playgroundVars, clientVars, submitVars, formVars, refreshVars>>

\* the timer of a fetch fires and fetchUserData goes on: setUserData(data);
\* at the render that follows, a UserForm element with another key makes
\* React unmount the form and mount a new one with the new userData
FireSetUserData(i) ==
    /\ timers[i].kind = "resolveUser"
    /\ CanFire(i)
    /\ ResolveUser(i)
    /\ timers' = WithoutTimer(i)
    /\ userData' = promises'[timers[i].data.promise].value
    /\ formKey' = UserFormKey(userData')
    /\ IF formKey' # formKey
       THEN /\ tab' = 0
            /\ formState' = InitialFormState(userData')
            /\ formAlias' = InitialFormAlias(userData')
            /\ trail' = "none"
       ELSE UNCHANGED <<tab, formState, formAlias, trail>>
    /\ UNCHANGED <<formSubmits, lastEdit, userId, selections>>
    /\ UNCHANGED <<fetches, overlapped, users, callerVars>>
    /\ UNCHANGED <<playgroundVars, clientVars, submitVars, refreshVars>>

NextContainer ==
    \/ \E id \in SelectableIds : SelectUser(id)
    \/ \E i \in DOMAIN timers : FireSetUserData(i)
    \/ \E i \in StepIndices : SetTab(i)
    \/ \E v \in TypedNames : Step1NameInput(v)
    \/ Step1AgeInput
    \/ \E v \in TypedColors : Step2ColorInput(v)
    \/ Step3HungryInput
    \/ Step3ThirstyInput
    \/ HandleSubmit
    \/ \E i \in DOMAIN timers : FireSetResult(i)

SpecContainer == InitContainer /\ [][NextContainer]_vars

-----------------------------------------------------------------------------
(* FormContainer: properties *)

\* C14: whatever fetches, selections of a user id, edits of the form, tab
\* selections and submissions have happened, the users table holds the
\* records it held at the start, also after edits of a form whose form
\* record started as an object of the table.
C14_UsersTableReadOnly == users = UsersTable

\* a form mounted with the fetched record of the table has been edited (its
\* form record is now another object with other values), a tab was selected
\* and the form was submitted, after two fetches or more
C14_Witness ==
    /\ formKey # None
    /\ formAlias = 0
    /\ formState.id = formKey[1]
    /\ formState # UsersTable[formKey[1]]
    /\ tab # 0
    /\ Len(calls) >= 1
    /\ calls[1].name = "Ann"
    /\ Len(fetches) >= 2

\* C16: the step in which a fetch is resolved with a record whose id is not
\* the key of the form gives the form that id as its key, the fetched
\* record as its form record (the edits made before are gone) and the first
\* step as its tab; and whenever no fetch is pending, the fetched record,
\* the key of the form and the id in the form record are those of the user
\* id selected last.
C16_FormFollowsFetchedRecord ==
    /\ [][\A n \in DOMAIN promises :
            (/\ promises[n].status = "pending"
             /\ promises'[n].status = "fulfilled"
             /\ promises'[n].value # None
             /\ formKey # Some(promises'[n].value[1].id)) =>
                /\ formKey' = Some(promises'[n].value[1].id)
                /\ formState' = promises'[n].value[1]
                /\ formAlias' = promises'[n].value[1].id
                /\ tab' = 0]_vars
    /\ []((\A n \in DOMAIN promises : promises[n].status # "pending") =>
            /\ userData = Some(UsersTable[userId])
            /\ formKey = Some(userId)
            /\ formState.id = userId)

\* user 2 and then user 1 again were selected while fetches were pending,
\* all three fetches are resolved, and the form is the one of user 1 with
\* the fetched record, although an input of an earlier form was edited
C16_Witness ==
    /\ fetches = <<1, 2, 1>>
    /\ overlapped
    /\ \A n \in DOMAIN promises : promises[n].status = "fulfilled"
    /\ userId = 1
    /\ formKey = Some(1)
    /\ lastEdit # None
    /\ formAlias = 1
    /\ formState = UsersTable[1]

====
